---- MODULE Spec2Model ----
(***************************************************************************)
(* Model of AndroidOpenAccessoryBridge (android_open_accessory_bridge.py): *)
(* the framed channel (write / read), close, and the scope-bound use of    *)
(* the Bridge (__enter__ / __exit__), over a USB transport whose bulk      *)
(* transfers may complete, complete short, time out (errno 110) or fail;   *)
(* and the construction of the Bridge (__init__): device detection, the    *)
(* accessory handshake, the re-poll and the endpoint resolution.           *)
(*                                                                         *)
(* A bulk transfer is a blocking call: a call of write, read or close is   *)
(* at a position "in a transfer" from the moment it issues the transfer    *)
(* until the transport answers it.  The class has no lock and a thread may *)
(* run between any two lines of another: a step of the model is one line   *)
(* that reads or sets the attributes of the Bridge (an assertion, the      *)
(* lookup of an endpoint that issues a transfer, an assignment of close),  *)
(* or the answer of the transport to a transfer, with the code on locals   *)
(* that follows it.                                                        *)
(*                                                                         *)
(* Byte strings are kept run-length encoded: a byte string is a sequence   *)
(* of runs [b |-> byte, n |-> count], n >= 1, adjacent runs holding        *)
(* different bytes.  The encoding is lossless, so lengths keep their real  *)
(* 16-bit width (payloads of 65535 and 65536 bytes are ordinary values).   *)
(***************************************************************************)
EXTENDS Integers, Sequences, FiniteSets, TLC

VARIABLES
    device,        \* self._device: "handle" or "None"
    endpoint_out,  \* self._endpoint_out: "ep_out" or "None"
    endpoint_in,   \* self._endpoint_in: "ep_in" or "None"
    wpc,           \* position of the write call: "idle", about to issue
                   \*   ("issue_header", "issue_payload") or waiting in ("header",
                   \*   "payload") a transfer
    wdata,         \* data argument of the current / last write call
    wlog,          \* bulk OUT transfers issued by the current / last write call
    wsent,         \* bytes the current / last write call put on the bulk OUT wire
    wres,          \* outcome of the last write call
    rpc,           \* position of the read call: "idle", about to issue
                   \*   ("issue_header", "issue_payload") or waiting in ("header",
                   \*   "payload") a transfer
    rsize,         \* size decoded from the header by the current read call
    rlog,          \* bulk IN transfers issued by the current / last read call
    rres,          \* outcome of the last read call
    cpc,           \* position of each close() call (of a caller, of __exit__): "idle",
                   \*   "issue", "terminator", "dispose", "clear_device", "clear_out",
                   \*   "clear_in"
    clog,          \* the terminator transfer that was answered last
    cres,          \* outcome of the close call that ended last
    outWire,       \* all bytes transferred on the bulk OUT endpoint, in order
    disposed,      \* number of usb.util.dispose_resources(self._device) calls
    nwrites,       \* number of write calls made so far
    scope,         \* "body": inside `with`; "exiting": __exit__ is in its close();
                   \*   "exited": after __exit__;
                   \*   "direct": no `with` entered (yet)
    runtime,       \* the Python the program runs on: does array.array have tostring()
    npc,           \* position of __init__: "first", "version", "descriptor", "switch",
                   \*   "reset", "repoll", "endpoints", "done", "failed"
    handle,        \* local `device` of _configureAndOpenDevice: "none", "unconfigured",
                   \*   "configured"
    dleft,         \* attempts_left of the _detectDevice call in progress
    drounds,       \* query rounds the current / last _detectDevice call has made
    dcalls,        \* number of _detectDevice calls started
    dlast,         \* the last query round: what was enumerable, and what it led to
    nleft,         \* attempts_left of the re-poll loop (line 89)
    ctl,           \* control transfers issued, in order
    nresets,       \* number of device.reset() calls
    released,      \* handles given to usb.util.dispose_resources by __init__, in order
    nerr,          \* the exception __init__ ended with, and where it was raised
    bus            \* per endpoint, the bulk transfer the transport answered last

\* the state of the framed channel and of the lifecycle
cvars == <<device, endpoint_out, endpoint_in, wpc, wdata, wlog, wsent, wres,
           rpc, rsize, rlog, rres, cpc, clog, cres, outWire, disposed, nwrites,
           scope, runtime>>

\* the state of the construction
nvars == <<npc, handle, dleft, drounds, dcalls, dlast, nleft, ctl, nresets,
           released, nerr>>

vars == <<cvars, nvars, bus>>

-----------------------------------------------------------------------------
(* Bounds of the model.                                                    *)

\* write calls made in one run
MaxWrites == 1
\* header sends one write call may issue before the transport stops timing out
MaxHeaderSends == 3

-----------------------------------------------------------------------------
(* Byte strings (run-length encoded).                                      *)

Empty == <<>>

\* n copies of byte b
Fill(b, n) == IF n = 0 THEN <<>> ELSE <<[b |-> b, n |-> n]>>

RECURSIVE RLen(_)
RLen(r) == IF r = <<>> THEN 0 ELSE Head(r).n + RLen(Tail(r))

\* concatenation, merging the two runs that meet when they hold the same byte
RCat(r, s) ==
    IF r = <<>> THEN s
    ELSE IF s = <<>> THEN r
    ELSE IF r[Len(r)].b = s[1].b
         THEN SubSeq(r, 1, Len(r) - 1)
              \o <<[b |-> s[1].b, n |-> r[Len(r)].n + s[1].n]>>
              \o Tail(s)
         ELSE r \o s

\* the first k bytes (all of r when it is shorter)
RECURSIVE RTake(_, _)
RTake(r, k) ==
    IF k <= 0 \/ r = <<>> THEN <<>>
    ELSE IF Head(r).n >= k THEN <<[b |-> Head(r).b, n |-> k]>>
    ELSE <<Head(r)>> \o RTake(Tail(r), k - Head(r).n)

\* all but the first k bytes
RECURSIVE RDrop(_, _)
RDrop(r, k) ==
    IF k <= 0 \/ r = <<>> THEN r
    ELSE IF Head(r).n > k THEN <<[b |-> Head(r).b, n |-> Head(r).n - k]>> \o Tail(r)
    ELSE RDrop(Tail(r), k - Head(r).n)

\* the i-th byte, 1 <= i <= RLen(r)
RECURSIVE RAt(_, _)
RAt(r, i) == IF i <= Head(r).n THEN Head(r).b ELSE RAt(Tail(r), i - Head(r).n)

\* a byte string from a plain sequence of bytes
RECURSIVE FromSeq(_)
FromSeq(s) == IF s = <<>> THEN <<>> ELSE RCat(Fill(Head(s), 1), FromSeq(Tail(s)))

-----------------------------------------------------------------------------
(* Values of the program.                                                  *)

\* errno of usb.core.USBError "Operation timed out"
ETIMEDOUT == 110

\* errnos a USBError of the transport carries here: the timeout, and one that is
\* not a timeout (19, ENODEV: the device went away)
Errnos == {ETIMEDOUT, 19}

\* the result of a call: status is "ok", "None" (read returned None), the class of
\* the exception raised, "running" (in progress) or "none" (never called)
Result(status, errno, value) == [status |-> status, errno |-> errno, value |-> value]
NoResult == Result("none", 0, Empty)
Running == Result("running", 0, Empty)

\* one bulk transfer as the transport saw it: what was asked, and what came back
\* (ret: bytes transferred, or -1 with the errno of the USBError raised)
Xfer(kind, req, ret, errno) == [kind |-> kind, req |-> req, ret |-> ret, errno |-> errno]

\* payloads a caller passes to write: empty, b"0" (the demo's first message),
\* two different bytes, the longest 16-bit length, and one byte more than that
Payloads ==
    { Empty,
      Fill(48, 1),
      FromSeq(<<1, 2>>),
      Fill(7, 65535),
      Fill(7, 65536) }

\* array.array.tostring() exists in Python 2 and in Python 3 up to 3.8; Python 3.9
\* removed it
Runtimes == {"tostring", "no_tostring"}

\* payload lengths the peer announces in the headers it sends
PeerSizes == {0, 1, 300}

-----------------------------------------------------------------------------
(* The USB transport (external collaborator).                              *)

\* what endpoint.write(bytes) of L bytes can do: transfer all the bytes or fewer
\* (here: one fewer) and return the count, or raise USBError(errno)
WriteOutcomes(L) ==
    {[ret |-> n, errno |-> 0] : n \in {L - 1, L} \cap 0..L}
    \cup {[ret |-> -1, errno |-> e] : e \in Errnos}

\* what endpoint.read(n) can do: return an array of up to n bytes sent by the
\* peer, or raise USBError(errno); ret is the number of bytes returned
ReadOutcomes(n) ==
    {[ret |-> k, errno |-> 0] : k \in {n - 1, n} \cap 0..n}
    \cup {[ret |-> -1, errno |-> e] : e \in Errnos}

\* the 2-byte big-endian header a peer sends for a payload of n bytes
PeerHeader(n) == <<(n \div 256) % 256, n % 256>>

\* the array read(n) returns when the transport delivers k bytes of a payload
PeerPayload(k) == Fill(65, k)

-----------------------------------------------------------------------------
(* Framed channel: write.                                                  *)

\* (a slip of line 119: the assertion looks at data alone)
WriteAssertDataOnly(dev, ep, data) == data # Empty

\* line 119: assert(self._device and self._endpoint_out and data)
WriteAssert(dev, ep, data) == dev # "None" /\ ep # "None" /\ data # Empty

\* lines 121-123: [(size & 0x0000ff00) >> 8, size & 0x000000ff]
size_bytes(size) == FromSeq(<<(size \div 256) % 256, size % 256>>)

\* (a slip of lines 129-133: the timeout is raised like any other USBError)
HeaderExceptRaise(errno) == "raise"

\* lines 129-133: what the except clause of the header send does with a USBError
HeaderExcept(errno) == IF errno = ETIMEDOUT THEN "continue" ELSE "raise"

\* line 135: assert(bytes_wrote == 2)
HeaderAssert(bytes_wrote) == bytes_wrote = 2

\* (a slip of line 137: a short payload transfer passes)
PayloadAssertAtMost(bytes_wrote, size) == bytes_wrote <= size

\* line 137: assert(self._endpoint_out.write(data_bytes, timeout=timeout) == size)
PayloadAssert(bytes_wrote, size) == bytes_wrote = size

\* lines 127, 137, 142, 144, 153: self._endpoint_out.write / self._endpoint_in.read
\* is looked up when the transfer is issued; after a close() of another thread set
\* the attribute to None the lookup raises AttributeError
EndpointLookup(ep) == IF ep = "None" THEN "AttributeError" ELSE "issue"

\* the records of the framed-channel calls that are not in progress are cleared
\* when a framed-channel call starts: they describe the most recent call
ClearRead ==
    IF rpc = "idle"
    THEN rlog' = <<>> /\ rres' = NoResult /\ rsize' = 0
    ELSE UNCHANGED <<rlog, rres, rsize>>

ClearWrite ==
    IF wpc = "idle"
    THEN wlog' = <<>> /\ wres' = NoResult /\ wsent' = Empty /\ wdata' = Empty
    ELSE UNCHANGED <<wlog, wres, wsent, wdata>>

\* what the steps of write leave alone, and what those of read do
NotWrite == <<device, endpoint_out, endpoint_in, rpc, rsize, rlog, rres,
              cpc, clog, cres, disposed, scope, runtime>>
NotRead == <<device, endpoint_out, endpoint_in, wpc, wdata, wlog, wsent, wres,
             nwrites, cpc, clog, cres, outWire, disposed, scope, runtime>>

\* lines 118-124: write(data) is called; the assertion, then the header is built
WriteCall(data) ==
    /\ wpc = "idle"
    /\ nwrites < MaxWrites
    /\ nwrites' = nwrites + 1
    /\ wdata' = data
    /\ wlog' = <<>>
    /\ wsent' = Empty
    /\ IF WriteAssert(device, endpoint_out, data)
       THEN wpc' = "issue_header" /\ wres' = Running
       ELSE wpc' = "idle" /\ wres' = Result("AssertionError", 0, Empty)
    /\ ClearRead
    /\ UNCHANGED <<device, endpoint_out, endpoint_in, rpc, cpc, clog, cres,
                   outWire, disposed, scope, runtime>>

\* lines 127-128: self._endpoint_out.write is looked up and the header transfer
\* is issued (first pass of the loop, or a pass after a timeout)
WriteIssueHeader ==
    /\ wpc = "issue_header"
    /\ IF EndpointLookup(endpoint_out) = "issue"
       THEN wpc' = "header" /\ wres' = wres
       ELSE wpc' = "idle" /\ wres' = Result("AttributeError", 0, Empty)
    /\ UNCHANGED <<wdata, wlog, wsent, nwrites, outWire>>
    /\ UNCHANGED NotWrite

\* lines 127-136: the transport answers the header transfer; a timeout repeats the
\* pass, 2 bytes transferred leave the loop
WriteHeader ==
    /\ wpc = "header"
    /\ \E o \in WriteOutcomes(2) :
        /\ o.errno = ETIMEDOUT => Len(wlog) + 1 < MaxHeaderSends
        /\ wlog' = Append(wlog, Xfer("header", 2, o.ret, o.errno))
        /\ IF o.ret >= 0
           THEN /\ wsent' = RCat(wsent, RTake(size_bytes(RLen(wdata)), o.ret))
                /\ outWire' = RCat(outWire, RTake(size_bytes(RLen(wdata)), o.ret))
                /\ IF HeaderAssert(o.ret)
                   THEN wpc' = "issue_payload" /\ wres' = wres
                   ELSE wpc' = "idle" /\ wres' = Result("AssertionError", 0, Empty)
           ELSE /\ UNCHANGED <<wsent, outWire>>
                /\ IF HeaderExcept(o.errno) = "continue"
                   THEN wpc' = "issue_header" /\ wres' = wres
                   ELSE wpc' = "idle" /\ wres' = Result("USBError", o.errno, Empty)
    /\ UNCHANGED <<wdata, nwrites>>
    /\ UNCHANGED NotWrite

\* line 137: self._endpoint_out.write is looked up and the payload transfer is
\* issued
WriteIssuePayload ==
    /\ wpc = "issue_payload"
    /\ IF EndpointLookup(endpoint_out) = "issue"
       THEN wpc' = "payload" /\ wres' = wres
       ELSE wpc' = "idle" /\ wres' = Result("AttributeError", 0, Empty)
    /\ UNCHANGED <<wdata, wlog, wsent, nwrites, outWire>>
    /\ UNCHANGED NotWrite

\* line 137: the transport answers the payload transfer; it is outside the try:
\* every USBError propagates
WritePayload ==
    /\ wpc = "payload"
    /\ \E o \in WriteOutcomes(RLen(wdata)) :
        /\ wlog' = Append(wlog, Xfer("payload", RLen(wdata), o.ret, o.errno))
        /\ wpc' = "idle"
        /\ IF o.ret >= 0
           THEN /\ wsent' = RCat(wsent, RTake(wdata, o.ret))
                /\ outWire' = RCat(outWire, RTake(wdata, o.ret))
                /\ wres' = IF PayloadAssert(o.ret, RLen(wdata))
                           THEN Result("ok", 0, Empty)
                           ELSE Result("AssertionError", 0, Empty)
           ELSE /\ UNCHANGED <<wsent, outWire>>
                /\ wres' = Result("USBError", o.errno, Empty)
    /\ UNCHANGED <<wdata, nwrites>>
    /\ UNCHANGED NotWrite

-----------------------------------------------------------------------------
(* Framed channel: read.                                                   *)

\* line 140: assert(self._device and self._endpoint_in)
ReadAssert(dev, ep) == dev # "None" /\ ep # "None"

\* line 143: size = (size_bytes[0] << 8) | size_bytes[1]
DecodeSize(hi, lo) == hi * 256 + lo

\* (a slip of lines 145-149: every USBError is taken for a timeout)
ReadExceptSwallow(errno) == "None"

\* lines 145-149: what the except clause of read does with a USBError
ReadExcept(errno) == IF errno = ETIMEDOUT THEN "None" ELSE "raise"

\* line 144: array('B').tostring() where the method exists: one byte per item
RECURSIVE tostring(_)
tostring(a) ==
    IF a = <<>> THEN <<>>
    ELSE RCat(Fill(Head(a).b % 256, Head(a).n), tostring(Tail(a)))

\* line 144: .tostring() on the array the payload read returned: the byte string,
\* or AttributeError on a Python whose array.array has no tostring (the except
\* clause catches usb.core.USBError only)
ReturnPayload(rt, a) ==
    IF rt = "tostring"
    THEN Result("ok", 0, tostring(a))
    ELSE Result("AttributeError", 0, Empty)

\* lines 139-140: read() is called; the assertion
ReadCall ==
    /\ rpc = "idle"
    /\ rlog' = <<>>
    /\ rsize' = 0
    /\ IF ReadAssert(device, endpoint_in)
       THEN rpc' = "issue_header" /\ rres' = Running
       ELSE rpc' = "idle" /\ rres' = Result("AssertionError", 0, Empty)
    /\ ClearWrite
    /\ UNCHANGED <<device, endpoint_out, endpoint_in, wpc, nwrites, cpc, clog, cres,
                   outWire, disposed, scope, runtime>>

\* line 142: self._endpoint_in.read is looked up and the header read is issued;
\* the AttributeError of the lookup is no USBError: it leaves read()
ReadIssueHeader ==
    /\ rpc = "issue_header"
    /\ IF EndpointLookup(endpoint_in) = "issue"
       THEN rpc' = "header" /\ rres' = rres
       ELSE rpc' = "idle" /\ rres' = Result("AttributeError", 0, Empty)
    /\ UNCHANGED <<rsize, rlog>>
    /\ UNCHANGED NotRead

\* lines 142-143 (and the except clause for this transfer): the transport answers
\* the header read with the first o.ret bytes of the header the peer sent; with
\* both bytes the size is decoded
ReadHeader ==
    /\ rpc = "header"
    /\ \E o \in ReadOutcomes(2), n \in PeerSizes :
        /\ o.ret < 0 => n = 0
        /\ rlog' = Append(rlog, Xfer("header", 2, o.ret, o.errno))
        /\ IF o.ret = 2
           THEN /\ rsize' = DecodeSize(PeerHeader(n)[1], PeerHeader(n)[2])
                /\ rpc' = "issue_payload"
                /\ rres' = rres
           ELSE /\ rsize' = rsize
                /\ rpc' = "idle"
                /\ rres' = IF o.ret >= 0
                           THEN Result("IndexError", 0, Empty)
                           ELSE IF ReadExcept(o.errno) = "None"
                                THEN Result("None", 0, Empty)
                                ELSE Result("USBError", o.errno, Empty)
    /\ UNCHANGED NotRead

\* line 144: self._endpoint_in.read is looked up and the payload read is issued
ReadIssuePayload ==
    /\ rpc = "issue_payload"
    /\ IF EndpointLookup(endpoint_in) = "issue"
       THEN rpc' = "payload" /\ rres' = rres
       ELSE rpc' = "idle" /\ rres' = Result("AttributeError", 0, Empty)
    /\ UNCHANGED <<rsize, rlog>>
    /\ UNCHANGED NotRead

\* line 144 (and the except clause for this transfer): the transport answers the
\* payload read; what it returns is returned as it is, converted by tostring()
ReadPayload ==
    /\ rpc = "payload"
    /\ \E o \in ReadOutcomes(rsize) :
        /\ rlog' = Append(rlog, Xfer("payload", rsize, o.ret, o.errno))
        /\ rpc' = "idle"
        /\ rres' = IF o.ret >= 0
                   THEN ReturnPayload(runtime, PeerPayload(o.ret))
                   ELSE IF ReadExcept(o.errno) = "None"
                        THEN Result("None", 0, Empty)
                        ELSE Result("USBError", o.errno, Empty)
    /\ UNCHANGED rsize
    /\ UNCHANGED NotRead

-----------------------------------------------------------------------------
(* Bridge lifecycle: close, and the scope-bound use of the Bridge.         *)

\* the calls of close() that can be in progress: the one a caller makes, and the
\* one __exit__ makes (line 51)
Closers == {"close", "exit"}

\* line 152: assert(self._device and self._endpoint_out)
CloseAssert(dev, ep) == dev # "None" /\ ep # "None"

\* the terminator close writes (line 153): array('B', [0, 0])
Terminator == FromSeq(<<0, 0>>)

\* line 154: usb.util.dispose_resources(self._device) reads device._ctx, so it
\* raises AttributeError when another close() set self._device to None meanwhile
Release(dev) == IF dev = "None" THEN "AttributeError" ELSE "release"

\* what the steps of close leave alone
NotClose == <<wpc, wdata, wlog, wsent, wres, nwrites, rpc, rsize, rlog, rres, runtime>>

\* the close() call c moves to position pos; __exit__ ends when its close() does
CloseGo(c, pos) ==
    /\ cpc' = [cpc EXCEPT ![c] = pos]
    /\ scope' = IF c # "exit" THEN scope
                ELSE IF pos = "idle" THEN "exited" ELSE "exiting"

\* line 152: close() is entered; the assertion
CloseCall(c) ==
    /\ cpc[c] = "idle"
    /\ IF CloseAssert(device, endpoint_out)
       THEN CloseGo(c, "issue") /\ UNCHANGED <<clog, cres>>
       ELSE /\ CloseGo(c, "idle")
            /\ clog' = <<>>
            /\ cres' = Result("AssertionError", 0, Empty)
    /\ UNCHANGED <<device, endpoint_out, endpoint_in, outWire, disposed>>
    /\ UNCHANGED NotClose

\* close() called by a caller
Close == CloseCall("close")

\* lines 50-51: __exit__ runs when control leaves the `with` body, normally or
\* with an exception of the body in flight; it calls close()
Exit == scope = "body" /\ CloseCall("exit")

\* line 153: self._endpoint_out.write is looked up and the terminator transfer is
\* issued
CloseIssue ==
    \E c \in Closers :
        /\ cpc[c] = "issue"
        /\ IF EndpointLookup(endpoint_out) = "issue"
           THEN CloseGo(c, "terminator") /\ UNCHANGED <<clog, cres>>
           ELSE /\ CloseGo(c, "idle")
                /\ clog' = <<>>
                /\ cres' = Result("AttributeError", 0, Empty)
        /\ UNCHANGED <<device, endpoint_out, endpoint_in, outWire, disposed>>
        /\ UNCHANGED NotClose

\* line 153: the transport answers the terminator transfer; its return value is
\* not looked at and its USBError propagates
CloseTerminator ==
    \E c \in Closers :
        /\ cpc[c] = "terminator"
        /\ \E o \in WriteOutcomes(2) :
            /\ clog' = <<Xfer("terminator", 2, o.ret, o.errno)>>
            /\ IF o.ret >= 0
               THEN /\ outWire' = RCat(outWire, RTake(Terminator, o.ret))
                    /\ CloseGo(c, "dispose")
                    /\ cres' = cres
               ELSE /\ outWire' = outWire
                    /\ CloseGo(c, "idle")
                    /\ cres' = Result("USBError", o.errno, Empty)
        /\ UNCHANGED <<device, endpoint_out, endpoint_in, disposed>>
        /\ UNCHANGED NotClose

\* line 154: usb.util.dispose_resources(self._device)
CloseDispose ==
    \E c \in Closers :
        /\ cpc[c] = "dispose"
        /\ IF Release(device) = "release"
           THEN /\ disposed' = disposed + 1
                /\ CloseGo(c, "clear_device")
                /\ cres' = cres
           ELSE /\ disposed' = disposed
                /\ CloseGo(c, "idle")
                /\ cres' = Result("AttributeError", 0, Empty)
        /\ UNCHANGED <<device, endpoint_out, endpoint_in, outWire, clog>>
        /\ UNCHANGED NotClose

\* line 155: self._device = None
CloseClearDevice ==
    \E c \in Closers :
        /\ cpc[c] = "clear_device"
        /\ device' = "None"
        /\ CloseGo(c, "clear_out")
        /\ UNCHANGED <<endpoint_out, endpoint_in, outWire, disposed, clog, cres>>
        /\ UNCHANGED NotClose

\* line 156: self._endpoint_out = None
CloseClearOut ==
    \E c \in Closers :
        /\ cpc[c] = "clear_out"
        /\ endpoint_out' = "None"
        /\ CloseGo(c, "clear_in")
        /\ UNCHANGED <<device, endpoint_in, outWire, disposed, clog, cres>>
        /\ UNCHANGED NotClose

\* line 157: self._endpoint_in = None; close() returns
CloseClearIn ==
    \E c \in Closers :
        /\ cpc[c] = "clear_in"
        /\ endpoint_in' = "None"
        /\ CloseGo(c, "idle")
        /\ cres' = Result("ok", 0, Empty)
        /\ UNCHANGED <<device, endpoint_out, outWire, disposed, clog>>
        /\ UNCHANGED NotClose

-----------------------------------------------------------------------------
(* The Bridge as one caller uses it: one call at a time.                   *)

\* the construction as it stands after __init__ returned, here for a device found
\* configured at once: one reset, no control transfer, found again by the first
\* re-poll; no bulk transfer has been issued yet
Constructed ==
    /\ npc = "done"
    /\ handle = "configured"
    /\ dleft = 5 /\ drounds = 1 /\ dcalls = 2
    /\ dlast = [u |-> FALSE, c |-> TRUE, out |-> "configured"]
    /\ nleft = 5
    /\ ctl = <<>>
    /\ nresets = 1
    /\ released = <<>>
    /\ nerr = [at |-> "none", what |-> "none"]
    /\ bus = [e \in {"ep_out", "ep_in"} |-> <<>>]

\* after __init__ (lines 32-45) returned: device and endpoints are set; the caller
\* holds the Bridge in a `with` statement (lines 47-48, 172-180); a caller that
\* holds it directly is one that never leaves the body
Init ==
    /\ Constructed
    /\ device = "handle"
    /\ endpoint_out = "ep_out"
    /\ endpoint_in = "ep_in"
    /\ wpc = "idle" /\ wdata = Empty /\ wlog = <<>> /\ wsent = Empty /\ wres = NoResult
    /\ rpc = "idle" /\ rsize = 0 /\ rlog = <<>> /\ rres = NoResult
    /\ cpc = [c \in Closers |-> "idle"] /\ clog = <<>> /\ cres = NoResult
    /\ outWire = Empty
    /\ disposed = 0
    /\ nwrites = 0
    /\ scope = "body"
    /\ runtime \in Runtimes

\* no close() is in progress
NoClose == \A c \in Closers : cpc[c] = "idle"

\* the one caller is in none of its calls
NoCall == wpc = "idle" /\ rpc = "idle" /\ NoClose

Write == NoCall /\ \E data \in Payloads : WriteCall(data)

Read == NoCall /\ ReadCall

Next ==
    \/ Write /\ UNCHANGED <<nvars, bus>>
    \/ WriteIssueHeader /\ UNCHANGED <<nvars, bus>>
    \/ WriteHeader /\ UNCHANGED <<nvars, bus>>
    \/ WriteIssuePayload /\ UNCHANGED <<nvars, bus>>
    \/ WritePayload /\ UNCHANGED <<nvars, bus>>
    \/ Read /\ UNCHANGED <<nvars, bus>>
    \/ ReadIssueHeader /\ UNCHANGED <<nvars, bus>>
    \/ ReadHeader /\ UNCHANGED <<nvars, bus>>
    \/ ReadIssuePayload /\ UNCHANGED <<nvars, bus>>
    \/ ReadPayload /\ UNCHANGED <<nvars, bus>>
    \/ NoCall /\ Close /\ UNCHANGED <<nvars, bus>>
    \/ NoCall /\ Exit /\ UNCHANGED <<nvars, bus>>
    \/ CloseIssue /\ UNCHANGED <<nvars, bus>>
    \/ CloseTerminator /\ UNCHANGED <<nvars, bus>>
    \/ CloseDispose /\ UNCHANGED <<nvars, bus>>
    \/ CloseClearDevice /\ UNCHANGED <<nvars, bus>>
    \/ CloseClearOut /\ UNCHANGED <<nvars, bus>>
    \/ CloseClearIn /\ UNCHANGED <<nvars, bus>>

Spec == Init /\ [][Next]_vars

-----------------------------------------------------------------------------
(* Construction of the Bridge: __init__ (lines 32-45).                     *)

\* default of attempts_left in _detectDevice (line 53)
DetectAttempts == 5
\* attempts_left of the re-poll loop (line 89)
PollAttempts == 5
\* the protocol version the handshake accepts (line 74)
AoaVersion == 2
\* query rounds one _detectDevice call may make in the model
MaxRounds == 8

\* the variables of the channel that __init__ does not touch
iovars == <<wpc, wdata, wlog, wsent, wres, rpc, rsize, rlog, rres, cpc, clog, cres,
            outWire, disposed, nwrites, scope, runtime>>

NoError == [at |-> "none", what |-> "none"]
Error(at, what) == [at |-> at, what |-> what]

\* lengths of the six descriptor fields, in the order of line 77: manufacturer,
\* model, description, version, uri, serial (the strings of lines 174-180)
Descriptor == <<16, 9, 15, 1, 59, 10>>

\* what the device answers to request 51: version 2, 1, 3, 258 and 512 in two
\* bytes, one byte only, and three bytes
VersionReplies == {<<2, 0>>, <<1, 0>>, <<3, 0>>, <<2, 1>>, <<0, 2>>, <<2>>, <<2, 0, 0>>}

\* the endpoint directions of interface (0, 0), in descriptor order
Interfaces ==
    {<<"out", "in">>, <<"in", "out">>, <<"in", "out", "out">>, <<"out">>, <<"in">>, <<>>}

\* (a slip of lines 58-61: the unconfigured device is looked at first)
DetectDecisionUnconfiguredFirst(u, c, attempts_left) ==
    IF u THEN "unconfigured"
    ELSE IF c THEN "configured"
    ELSE IF attempts_left # 0 THEN "retry"
    ELSE "raise"

\* (a slip of lines 62-66: the retry does not look at attempts_left)
DetectDecisionRetryAlways(u, c, attempts_left) ==
    IF c THEN "configured"
    ELSE IF u THEN "unconfigured"
    ELSE "retry"

\* lines 58-66: what one pass of _detectDevice does with what the two queries
\* found (u: a device with the unconfigured product id, c: with the configured)
DetectDecision(u, c, attempts_left) ==
    IF c THEN "configured"
    ELSE IF u THEN "unconfigured"
    ELSE IF attempts_left # 0 THEN "retry"
    ELSE "raise"

\* (a slip of line 74: the two bytes are taken big-endian)
VersionAssertBigEndian(buf) == Len(buf) = 2 /\ buf[1] * 256 + buf[2] = AoaVersion

\* line 74: assert(len(buf) == 2 and (buf[0] | buf[1] << 8) == 2)
VersionAssert(buf) == Len(buf) = 2 /\ buf[1] + buf[2] * 256 = AoaVersion

\* (a slip of lines 78-79: a short descriptor transfer passes)
DescriptorAssertAtMost(ret, len) == ret <= len

\* lines 78-79: assert(device.ctrl_transfer(0x40, 52, ...) == len(data))
DescriptorAssert(ret, len) == ret = len

\* (a slip of line 81: what request 53 reported is not looked at)
SwitchAssertAny(ret) == TRUE

\* line 81: assert(device.ctrl_transfer(0x40, 53) == 0)
SwitchAssert(ret) == ret = 0

\* (a slip of lines 71 and 83: the handshake is run whatever is_configured says)
AfterFirstAlwaysHandshake(is_configured) == "version"

\* lines 71 and 83: where _configureAndOpenDevice goes after the first detection
AfterFirst(is_configured) == IF ~is_configured THEN "version" ELSE "reset"

\* (a slip of lines 90-96: the handle is returned whatever is_configured says)
PollDecisionReturnAny(is_configured, attempts_left) == "return"

\* (a slip of lines 90-96: the loop never gives up)
PollDecisionNoRaise(is_configured, attempts_left) ==
    IF is_configured THEN "return" ELSE "again"

\* lines 90-96: what the re-poll loop does with what _detectDevice returned
PollDecision(is_configured, attempts_left) ==
    IF is_configured THEN "return"
    ELSE IF attempts_left - 1 # 0 THEN "again"
    ELSE "raise"

\* usb.util.find_descriptor(interface, custom_match=...): the position of the
\* first endpoint of direction dir, 0 (None) when there is none (lines 103-114)
RECURSIVE FirstMatch(_, _, _)
FirstMatch(eps, dir, i) ==
    IF i > Len(eps) THEN 0
    ELSE IF eps[i] = dir THEN i
    ELSE FirstMatch(eps, dir, i + 1)

\* line 115: assert(endpoint_out and endpoint_in)
EndpointsAssert(out, in) == out # 0 /\ in # 0

\* a control transfer as the transport saw it: request, wIndex, the byte count it
\* reported (-1: USBError raised), and the bytes read (request 51)
Ctl(req, idx, ret, buf) == [req |-> req, idx |-> idx, ret |-> ret, buf |-> buf]

\* the index of the next descriptor field to send: the transfers of request 52 so far
DescIndex == Cardinality({k \in 1..Len(ctl) : ctl[k].req = 52})

\* a call of self._detectDevice() starts (lines 70, 91)
StartDetect ==
    /\ dleft' = DetectAttempts
    /\ drounds' = 0
    /\ dcalls' = dcalls + 1

\* __init__ ends by raising
Fail(at, what) ==
    /\ npc' = "failed"
    /\ nerr' = Error(at, what)

\* lines 53-66, one pass of _detectDevice, and where its caller goes when it
\* returns: line 71 after the first detection, lines 92-96 in the re-poll loop
DetectRound ==
    /\ npc \in {"first", "repoll"}
    /\ drounds < MaxRounds
    /\ \E u \in BOOLEAN, c \in BOOLEAN :
        LET d == DetectDecision(u, c, dleft)
            p == PollDecision(d = "configured", nleft)
        IN  /\ dlast' = [u |-> u, c |-> c, out |-> d]
            /\ IF d = "retry"
               THEN /\ dleft' = dleft - 1
                    /\ drounds' = drounds + 1
                    /\ UNCHANGED <<npc, handle, dcalls, nleft, nerr, device>>
               ELSE IF d = "raise"
               THEN /\ Fail(npc, "Device not connected")
                    /\ drounds' = drounds + 1
                    /\ UNCHANGED <<handle, dleft, dcalls, nleft, device>>
               ELSE IF npc = "first"
               THEN /\ handle' = d
                    /\ npc' = AfterFirst(d = "configured")
                    /\ drounds' = drounds + 1
                    /\ UNCHANGED <<dleft, dcalls, nleft, nerr, device>>
               ELSE /\ handle' = d
                    /\ IF p = "return"
                       THEN /\ npc' = "endpoints"
                            /\ device' = "handle"
                            /\ drounds' = drounds + 1
                            /\ UNCHANGED <<dleft, dcalls, nleft, nerr>>
                       ELSE IF p = "again"
                       THEN /\ nleft' = nleft - 1
                            /\ StartDetect
                            /\ UNCHANGED <<npc, nerr, device>>
                       ELSE /\ nleft' = nleft - 1
                            /\ Fail("repoll", "Device not configured")
                            /\ drounds' = drounds + 1
                            /\ UNCHANGED <<dleft, dcalls, device>>
    /\ UNCHANGED <<endpoint_out, endpoint_in, ctl, nresets, released, iovars, bus>>

\* lines 73-74: request 51, the protocol version
Version ==
    /\ npc = "version"
    /\ \/ \E buf \in VersionReplies :
            /\ ctl' = Append(ctl, Ctl(51, 0, Len(buf), buf))
            /\ IF VersionAssert(buf)
               THEN npc' = "descriptor" /\ nerr' = nerr
               ELSE Fail("version", "AssertionError")
       \/ /\ ctl' = Append(ctl, Ctl(51, 0, -1, <<>>))
          /\ Fail("version", "USBError")
    /\ UNCHANGED <<device, endpoint_out, endpoint_in, handle, dleft, drounds, dcalls,
                   dlast, nleft, nresets, released, iovars, bus>>

\* lines 76-79: request 52 for the next descriptor field
SendDescriptor ==
    /\ npc = "descriptor"
    /\ LET i == DescIndex
           len == Descriptor[i + 1]
       IN \E ret \in {len, len - 1, -1} :
            /\ ctl' = Append(ctl, Ctl(52, i, ret, <<>>))
            /\ IF ret < 0 THEN Fail("descriptor", "USBError")
               ELSE IF ~DescriptorAssert(ret, len) THEN Fail("descriptor", "AssertionError")
               ELSE /\ npc' = IF i + 1 = Len(Descriptor) THEN "switch" ELSE "descriptor"
                    /\ nerr' = nerr
    /\ UNCHANGED <<device, endpoint_out, endpoint_in, handle, dleft, drounds, dcalls,
                   dlast, nleft, nresets, released, iovars, bus>>

\* lines 81-82 and 89-91: request 53, the release of the pre-switch handle, and the
\* re-poll loop is entered
Switch ==
    /\ npc = "switch"
    /\ \E ret \in {0, 1, -1} :
        /\ ctl' = Append(ctl, Ctl(53, 0, ret, <<>>))
        /\ IF ret < 0
           THEN Fail("switch", "USBError")
                /\ UNCHANGED <<released, nleft, dleft, drounds, dcalls>>
           ELSE IF ~SwitchAssert(ret)
           THEN Fail("switch", "AssertionError")
                /\ UNCHANGED <<released, nleft, dleft, drounds, dcalls>>
           ELSE /\ released' = Append(released, handle)
                /\ npc' = "repoll"
                /\ nleft' = PollAttempts
                /\ StartDetect
                /\ nerr' = nerr
    /\ UNCHANGED <<device, endpoint_out, endpoint_in, handle, dlast, nresets,
                   iovars, bus>>

\* lines 85-86 and 89-91: the device found configured is reset, and the re-poll
\* loop is entered
Reset ==
    /\ npc = "reset"
    /\ nresets' = nresets + 1
    /\ npc' = "repoll"
    /\ nleft' = PollAttempts
    /\ StartDetect
    /\ UNCHANGED <<device, endpoint_out, endpoint_in, handle, dlast, ctl, released,
                   nerr, iovars, bus>>

\* lines 45 and 98-116: _detectEndpoints on the handle __init__ stored
DetectEndpoints ==
    /\ npc = "endpoints"
    /\ device # "None"
    /\ \E eps \in Interfaces :
        IF EndpointsAssert(FirstMatch(eps, "out", 1), FirstMatch(eps, "in", 1))
        THEN /\ endpoint_out' = "ep_out"
             /\ endpoint_in' = "ep_in"
             /\ npc' = "done"
             /\ nerr' = nerr
        ELSE /\ Fail("endpoints", "AssertionError")
             /\ UNCHANGED <<endpoint_out, endpoint_in>>
    /\ UNCHANGED <<device, handle, dleft, drounds, dcalls, dlast, nleft, ctl, nresets,
                   released, iovars, bus>>

\* __init__ is entered: nothing is set, the first _detectDevice call starts (line 70)
OpenInit ==
    /\ device = "None" /\ endpoint_out = "None" /\ endpoint_in = "None"
    /\ wpc = "idle" /\ wdata = Empty /\ wlog = <<>> /\ wsent = Empty /\ wres = NoResult
    /\ rpc = "idle" /\ rsize = 0 /\ rlog = <<>> /\ rres = NoResult
    /\ cpc = [c \in {"close", "exit"} |-> "idle"] /\ clog = <<>> /\ cres = NoResult
    /\ runtime \in Runtimes
    /\ outWire = Empty /\ disposed = 0 /\ nwrites = 0
    /\ scope = "direct"
    /\ npc = "first"
    /\ handle = "none"
    /\ dleft = DetectAttempts /\ drounds = 0 /\ dcalls = 1
    /\ dlast = [u |-> FALSE, c |-> FALSE, out |-> "none"]
    /\ nleft = PollAttempts
    /\ ctl = <<>>
    /\ nresets = 0
    /\ released = <<>>
    /\ nerr = NoError
    /\ bus = [e \in {"ep_out", "ep_in"} |-> <<>>]

OpenNext ==
    \/ DetectRound
    \/ Version
    \/ SendDescriptor
    \/ Switch
    \/ Reset
    \/ DetectEndpoints

OpenSpec == OpenInit /\ [][OpenNext]_vars

\* usb.core.find, the control transfers, reset and time.sleep(1) all return: a
\* step of __init__ that can be taken is taken
FairOpenSpec == OpenSpec /\ WF_vars(OpenNext)

-----------------------------------------------------------------------------
(* Several threads on the same open Bridge.                                *)

\* one bulk transfer as an endpoint sees it: the operation that issued it, the
\* kind, the frame it belongs to and what the transport returned
Bulk(by, kind, frame, ret) == [by |-> by, kind |-> kind, frame |-> frame, ret |-> ret]

\* lines 127, 137 and 153: write and close issue on self._endpoint_out
WriteEndpoint(out, in) == out

\* (a slip of lines 142 and 144: read issues on the OUT endpoint)
ReadEndpointOut(out, in) == out

\* lines 142 and 144: read issues on self._endpoint_in
ReadEndpoint(out, in) == in

\* the endpoint ep carries transfer x: bus keeps, per endpoint, the transfer the
\* transport answered last
Carry(ep, x) == [bus EXCEPT ![ep] = <<x>>]

\* a transfer in progress was issued while the attributes were set: on the
\* endpoints line 45 stored
CarryOut(x) == Carry(WriteEndpoint("ep_out", "ep_in"), x)
CarryIn(x) == Carry(ReadEndpoint("ep_out", "ep_in"), x)

\* the payloads the writer thread sends
ThreadPayloads == {Empty, FromSeq(<<1, 2>>)}

\* the writer thread calls write(data), whatever the other threads are in
ThreadWrite ==
    /\ \E data \in ThreadPayloads : WriteCall(data)
    /\ UNCHANGED <<nvars, bus>>

ThreadWriteHeader ==
    /\ WriteHeader
    /\ bus' = CarryOut(Bulk("write", "header", nwrites, wlog'[Len(wlog')].ret))
    /\ UNCHANGED nvars

ThreadWritePayload ==
    /\ WritePayload
    /\ bus' = CarryOut(Bulk("write", "payload", nwrites, wlog'[Len(wlog')].ret))
    /\ UNCHANGED nvars

ThreadReadHeader ==
    /\ ReadHeader
    /\ bus' = CarryIn(Bulk("read", "header", rsize', rlog'[Len(rlog')].ret))
    /\ UNCHANGED nvars

ThreadReadPayload ==
    /\ ReadPayload
    /\ bus' = CarryIn(Bulk("read", "payload", rsize, rlog'[Len(rlog')].ret))
    /\ UNCHANGED nvars

ThreadCloseTerminator ==
    /\ CloseTerminator
    /\ bus' = CarryOut(Bulk("close", "terminator", 0, clog'[1].ret))
    /\ UNCHANGED nvars

ConcInit == Init

\* a writer thread, a reader thread and the thread that holds the Bridge in the
\* `with`, which may leave the body at any moment; a thread may run between any
\* two steps of another
ConcNext ==
    \/ ThreadWrite
    \/ WriteIssueHeader /\ UNCHANGED <<nvars, bus>>
    \/ ThreadWriteHeader
    \/ WriteIssuePayload /\ UNCHANGED <<nvars, bus>>
    \/ ThreadWritePayload
    \/ ReadCall /\ UNCHANGED <<nvars, bus>>
    \/ ReadIssueHeader /\ UNCHANGED <<nvars, bus>>
    \/ ThreadReadHeader
    \/ ReadIssuePayload /\ UNCHANGED <<nvars, bus>>
    \/ ThreadReadPayload
    \/ Exit /\ UNCHANGED <<nvars, bus>>
    \/ CloseIssue /\ UNCHANGED <<nvars, bus>>
    \/ ThreadCloseTerminator
    \/ CloseDispose /\ UNCHANGED <<nvars, bus>>
    \/ CloseClearDevice /\ UNCHANGED <<nvars, bus>>
    \/ CloseClearOut /\ UNCHANGED <<nvars, bus>>
    \/ CloseClearIn /\ UNCHANGED <<nvars, bus>>

ConcSpec == ConcInit /\ [][ConcNext]_vars

\* two close() calls at once: one made by a thread, one made by __exit__
TwoCloseNext ==
    \/ Close /\ UNCHANGED <<nvars, bus>>
    \/ Exit /\ UNCHANGED <<nvars, bus>>
    \/ CloseIssue /\ UNCHANGED <<nvars, bus>>
    \/ ThreadCloseTerminator
    \/ CloseDispose /\ UNCHANGED <<nvars, bus>>
    \/ CloseClearDevice /\ UNCHANGED <<nvars, bus>>
    \/ CloseClearOut /\ UNCHANGED <<nvars, bus>>
    \/ CloseClearIn /\ UNCHANGED <<nvars, bus>>

TwoCloseSpec == ConcInit /\ [][TwoCloseNext]_vars

-----------------------------------------------------------------------------
(* The peer's side of the framing, and helpers of the properties.          *)

\* the peer decodes one frame as read does (lines 142-144): 2 bytes of header,
\* the size from them, then exactly that many bytes
PeerRead(w) ==
    IF RLen(w) < 2
    THEN [ok |-> FALSE, payload |-> Empty, rest |-> w]
    ELSE LET size == DecodeSize(RAt(w, 1), RAt(w, 2)) IN
         IF RLen(w) - 2 < size
         THEN [ok |-> FALSE, payload |-> Empty, rest |-> w]
         ELSE [ok |-> TRUE,
               payload |-> tostring(RTake(RDrop(w, 2), size)),
               rest |-> RDrop(w, 2 + size)]

\* the frames a peer decodes from w, in order, up to the first incomplete one
RECURSIVE Frames(_)
Frames(w) ==
    IF PeerRead(w).ok THEN <<PeerRead(w).payload>> \o Frames(PeerRead(w).rest)
    ELSE <<>>

Last(s) == s[Len(s)]

\* every transfer of the log moved all the bytes it was asked to move
Complete(log) == \A i \in 1..Len(log) : log[i].ret = log[i].req

\* a call ended by raising
Raised(res) ==
    res.status \in {"AssertionError", "USBError", "IndexError", "AttributeError"}

WriteReturned == wpc = "idle" /\ wres.status # "none"
ReadReturned == rpc = "idle" /\ rres.status # "none"

-----------------------------------------------------------------------------
(* C1..C10: the framed channel and the lifecycle.                          *)

\* C1 (as claimed): on an open Bridge over a transport that completes every
\* transfer, write(P) with 0 <= len(P) <= 65535 succeeds, what it put on the wire
\* is the 2-byte big-endian header followed by P, and the peer decodes exactly P.
C1_RoundTrip ==
    (/\ WriteReturned
     /\ device = "handle"
     /\ RLen(wdata) <= 65535
     /\ Complete(wlog))
    => /\ wres.status = "ok"
       /\ wsent = RCat(size_bytes(RLen(wdata)), wdata)
       /\ PeerRead(wsent) = [ok |-> TRUE, payload |-> wdata, rest |-> Empty]

\* C2 (as claimed): a write of more than 65535 bytes ends with an error, and no
\* write puts a header on the wire whose length field differs from len(data).
C2_RejectsOversize ==
    /\ (WriteReturned /\ device = "handle" /\ RLen(wdata) > 65535) => Raised(wres)
    /\ (wres.status # "none" /\ RLen(wsent) >= 2)
        => DecodeSize(RAt(wsent, 1), RAt(wsent, 2)) = RLen(wdata)

\* C3 (as claimed): a read whose payload read timed out (after the header was
\* consumed) ends with an error and does not return None.
C3_PartialFrameTimeout ==
    (/\ ReadReturned
     /\ Len(rlog) = 2
     /\ rlog[2].kind = "payload"
     /\ rlog[2].errno = ETIMEDOUT)
    => Raised(rres) /\ rres.status # "None"

\* C4: a USBError on the header read ends the read call without a payload read
\* and leaves device and endpoints as they were (set); errno 110 makes read
\* return None, any other errno is raised to the caller.
C4_HeaderReadError ==
    [][ (/\ rpc = "header"
         /\ Len(rlog') = Len(rlog) + 1
         /\ Last(rlog').ret < 0)
        => /\ Last(rlog').kind = "header"
           /\ rpc' = "idle"
           /\ Len(rlog') = 1
           /\ Last(rlog').errno = ETIMEDOUT => rres' = Result("None", 0, Empty)
           /\ Last(rlog').errno # ETIMEDOUT
                => rres' = Result("USBError", Last(rlog').errno, Empty)
           /\ device' = "handle" /\ endpoint_out' = "ep_out" /\ endpoint_in' = "ep_in"
           /\ disposed' = disposed
      ]_vars

C4_Witness ==
    /\ rpc = "idle"
    /\ rlog = <<Xfer("header", 2, -1, ETIMEDOUT)>>
    /\ rres.status = "None"
    /\ device = "handle" /\ endpoint_in = "ep_in"

\* C5 (as claimed): when the terminator write of close raises, close still
\* releases the device and invalidates both endpoints.
C5_CloseBestEffort ==
    (cres.status = "USBError" /\ Len(clog) = 1 /\ clog[1].kind = "terminator")
    => /\ device = "None"
       /\ endpoint_out = "None"
       /\ endpoint_in = "None"
       /\ disposed = 1

\* C6 (as claimed): write(b"") as the only write, then a close whose terminator is
\* transferred whole, leave exactly two zero-length frames on the bulk OUT wire
\* and the device resources released exactly once.
C6_EmptyWriteThenClose ==
    [][ (/\ device = "handle"
         /\ nwrites = 1 /\ WriteReturned /\ wdata = Empty /\ Complete(wlog)
         /\ device' = "None"
         /\ clog' = <<Xfer("terminator", 2, 2, 0)>>)
        => /\ Frames(outWire') = <<Empty, Empty>>
           /\ outWire' = Fill(0, 4)
           /\ disposed' = 1
      ]_vars

\* C7: once close has completed (device is None, no close in progress), every
\* call of write, read or close raises AssertionError, issues no bulk transfer,
\* puts nothing on the wire, releases nothing again, and the Bridge stays closed.
C7_UseAfterClose ==
    [][ (device = "None" /\ NoClose)
        => /\ device' = "None" /\ endpoint_out' = "None" /\ endpoint_in' = "None"
           /\ outWire' = outWire
           /\ disposed' = disposed
           /\ wpc' = "idle" /\ rpc' = "idle"
           /\ wlog' = <<>> \/ wlog' = wlog
           /\ rlog' = <<>> \/ rlog' = rlog
           /\ clog' = <<>> \/ clog' = clog
           /\ nwrites' # nwrites => wres' = Result("AssertionError", 0, Empty)
           /\ wres' \in {wres, NoResult, Result("AssertionError", 0, Empty)}
           /\ rres' \in {rres, NoResult, Result("AssertionError", 0, Empty)}
           /\ cres' \in {cres, Result("AssertionError", 0, Empty)}
      ]_vars

C7_Witness ==
    /\ device = "None"
    /\ disposed = 1
    /\ cres = Result("AssertionError", 0, Empty)
    /\ wres = Result("AssertionError", 0, Empty)
    /\ wdata # Empty
    /\ wlog = <<>>

\* C8 (as claimed): after control has left the `with` body, the device is
\* released and the endpoints are invalidated.
C8_ScopedRelease ==
    scope = "exited"
    => /\ cres.status # "none"
       /\ device = "None"
       /\ endpoint_out = "None"
       /\ endpoint_in = "None"
       /\ disposed = 1

\* C9: in a write call the payload transfer comes only right after a header send
\* that returned 2 and is the last transfer; every header send before the last
\* one timed out (errno 110); after a header timeout the call is still sending
\* the header, however many sends it has made; after any other USBError on the
\* header the call has ended by raising it, with no payload transfer.
C9_HeaderRetry ==
    \A i \in 1..Len(wlog) :
        /\ wlog[i].kind = "payload"
            => /\ i > 1 /\ i = Len(wlog)
               /\ wlog[i - 1].kind = "header" /\ wlog[i - 1].ret = 2
        /\ (wlog[i].kind = "header" /\ i < Len(wlog))
            => \/ wlog[i].errno = ETIMEDOUT /\ wlog[i + 1].kind = "header"
               \/ wlog[i].ret = 2 /\ wlog[i + 1].kind = "payload"
        /\ (wlog[i].kind = "header" /\ i = Len(wlog))
            => /\ wlog[i].errno = ETIMEDOUT => wpc \in {"issue_header", "header"}
               /\ wlog[i].ret = 2 => wpc \in {"issue_payload", "payload"}
               /\ (wlog[i].ret < 0 /\ wlog[i].errno # ETIMEDOUT)
                    => wpc = "idle" /\ wres = Result("USBError", wlog[i].errno, Empty)

C9_Witness ==
    /\ wpc = "idle"
    /\ wres.status = "ok"
    /\ Len(wlog) = 4
    /\ wlog[1].errno = ETIMEDOUT /\ wlog[2].errno = ETIMEDOUT
    /\ wlog[3].ret = 2
    /\ wlog[4].kind = "payload"

\* C10: a write whose payload transfer reported fewer bytes than len(data) has
\* ended with AssertionError after exactly one payload transfer and exactly one
\* header put on the wire: what it sent is the header and the short payload.
C10_ShortWrite ==
    (/\ Len(wlog) >= 1
     /\ Last(wlog).kind = "payload"
     /\ Last(wlog).ret >= 0
     /\ Last(wlog).ret < RLen(wdata))
    => /\ wpc = "idle"
       /\ wres = Result("AssertionError", 0, Empty)
       /\ Cardinality({i \in 1..Len(wlog) : wlog[i].kind = "payload"}) = 1
       /\ Cardinality({i \in 1..Len(wlog) : wlog[i].kind = "header" /\ wlog[i].ret >= 0}) = 1
       /\ wsent = RCat(size_bytes(RLen(wdata)), RTake(wdata, Last(wlog).ret))

C10_Witness ==
    /\ wpc = "idle"
    /\ Len(wlog) = 2
    /\ wlog[2] = Xfer("payload", 65535, 65534, 0)
    /\ wres.status = "AssertionError"

-----------------------------------------------------------------------------
(* C11..C20: the construction, the detector, and two callers at once.      *)

\* C11: when the first detection returns the configured device, the next step is
\* the reset with no control transfer issued; the reset is issued once and leads
\* to the re-poll loop; and on that path no control transfer is ever issued.
C11_ConfiguredNoHandshake ==
    /\ [][ (npc = "first" /\ npc' # "first" /\ dlast'.out = "configured")
           => npc' = "reset" /\ ctl' = <<>> /\ nresets' = 0 ]_vars
    /\ [][ npc = "reset"
           => /\ npc' = "repoll" /\ nresets' = 1 /\ ctl' = <<>>
              /\ nleft' = PollAttempts /\ dcalls' = dcalls + 1 /\ drounds' = 0 ]_vars
    /\ []((npc = "reset" \/ nresets > 0) => (ctl = <<>> /\ nresets <= 1 /\ released = <<>>))

C11_Witness ==
    /\ npc = "repoll"
    /\ nresets = 1
    /\ ctl = <<>>
    /\ dcalls = 2 /\ drounds = 0

\* C12: when the answer to request 51 is not the two bytes of version 2
\* (little-endian), __init__ has ended with the AssertionError of line 74: request
\* 51 is the only control transfer, nothing was released, no re-poll was made.
C12_VersionMismatch ==
    (/\ Len(ctl) >= 1
     /\ ctl[1].ret >= 0
     /\ ~(Len(ctl[1].buf) = 2 /\ ctl[1].buf[1] + 256 * ctl[1].buf[2] = 2))
    => /\ ctl[1].req = 51
       /\ Len(ctl) = 1
       /\ npc = "failed"
       /\ nerr = Error("version", "AssertionError")
       /\ dcalls = 1
       /\ released = <<>> /\ nresets = 0
       /\ device = "None"

C12_Witness ==
    /\ npc = "failed"
    /\ ctl = <<Ctl(51, 0, 2, <<3, 0>>)>>
    /\ nerr.at = "version"

\* C13 (as claimed): a construction that fails in the re-poll phase fails with
\* 'Device not configured', whatever was enumerable during the re-polls.
C13_AlwaysNotConfigured ==
    (npc = "failed" /\ nerr.at = "repoll") => nerr.what = "Device not configured"

\* C13 (amended): a construction that fails in the re-poll phase fails either
\* with 'Device not configured', after exactly 5 re-polls that each returned the
\* unconfigured device, or with the detector's 'Device not connected', in a
\* re-poll whose 6 query rounds found no matching device at all; and the re-poll
\* loop never runs with fewer than 1 or more than 5 attempts left.
C13_RepollFailure ==
    /\ (npc = "failed" /\ nerr.at = "repoll")
        => \/ /\ nerr.what = "Device not configured"
              /\ dlast = [u |-> TRUE, c |-> FALSE, out |-> "unconfigured"]
              /\ handle = "unconfigured"
              /\ nleft = 0
              /\ dcalls = 1 + PollAttempts
           \/ /\ nerr.what = "Device not connected"
              /\ dlast = [u |-> FALSE, c |-> FALSE, out |-> "raise"]
              /\ drounds = DetectAttempts + 1
              /\ nleft >= 1
    /\ npc = "repoll" => (nleft \in 1..PollAttempts /\ dcalls = 2 + PollAttempts - nleft)
    /\ (npc = "failed" /\ nerr.at = "repoll") => device = "None"

C13_Witness ==
    /\ npc = "failed"
    /\ nerr = Error("repoll", "Device not configured")
    /\ Len(ctl) = 8
    /\ dcalls = 6

\* C14: a re-poll round that finds the configured device ends the loop and
\* stores that handle; the re-poll loop makes at most 5 detections; and whenever
\* the Bridge holds a handle, it is one the detector returned as configured.
C14_ConfiguredHandle ==
    /\ [][ (npc = "repoll" /\ drounds' = drounds + 1 /\ dlast'.c)
           => npc' = "endpoints" /\ device' = "handle" /\ handle' = "configured" ]_vars
    /\ [](dcalls <= 1 + PollAttempts)
    /\ [](device = "handle"
          => /\ handle = "configured"
             /\ dlast.c /\ dlast.out = "configured"
             /\ npc \in {"endpoints", "done", "failed"}
             /\ (ctl = <<>> \/ (Len(ctl) = 8 /\ ctl[8] = Ctl(53, 0, 0, <<>>))))

C14_Witness ==
    /\ npc = "done"
    /\ device = "handle"
    /\ handle = "configured"
    /\ Len(ctl) = 8
    /\ dcalls = 1 + PollAttempts

\* a control transfer reported what its assertion asks for
CtlPassed(x) ==
    IF x.req = 51 THEN x.ret = 2 /\ x.buf[1] + 256 * x.buf[2] = 2
    ELSE IF x.req = 52 THEN x.ret = Descriptor[x.idx + 1]
    ELSE x.ret = 0

\* C15: the control transfers are request 51, then request 52 with index 0..5,
\* then request 53, in that order; each one is issued only after all the earlier
\* ones passed; and after one that did not pass __init__ has ended with an
\* error at that step, with no re-poll made and nothing released.
C15_HandshakeOrder ==
    /\ Len(ctl) <= 8
    /\ \A k \in 1..Len(ctl) :
        /\ k = 1 => ctl[k].req = 51
        /\ k \in 2..7 => ctl[k].req = 52 /\ ctl[k].idx = k - 2
        /\ k = 8 => ctl[k].req = 53
        /\ k < Len(ctl) => CtlPassed(ctl[k])
        /\ ~CtlPassed(ctl[k])
            => /\ npc = "failed"
               /\ nerr.at = (IF k = 1 THEN "version" ELSE IF k = 8 THEN "switch"
                             ELSE "descriptor")
               /\ dcalls = 1
               /\ released = <<>>
    /\ npc = "switch" => Len(ctl) = 7
    /\ released # <<>> => (Len(ctl) = 8 /\ CtlPassed(ctl[8]))

C15_Witness ==
    /\ Len(ctl) = 8
    /\ ctl[6] = Ctl(52, 4, 59, <<>>)
    /\ ctl[8] = Ctl(53, 0, 0, <<>>)
    /\ npc = "repoll"

\* C16: after a query round in which both the configured and the unconfigured
\* device were enumerable, the detector has returned the configured one.
C16_ConfiguredFirst ==
    (dlast.u /\ dlast.c) => (dlast.out = "configured" /\ handle = "configured")

C16_Witness ==
    /\ dlast = [u |-> TRUE, c |-> TRUE, out |-> "configured"]
    /\ npc = "reset"

\* C17: a _detectDevice call makes at most 6 query rounds; and when no matching
\* device is ever enumerable, the construction ends, with the detector's 'Device
\* not connected' raised from the first detection.
C17_DetectTerminates ==
    /\ [](drounds <= DetectAttempts + 1)
    /\ ([](~dlast.u /\ ~dlast.c))
        => <>(/\ npc = "failed"
              /\ nerr = Error("first", "Device not connected")
              /\ dcalls = 1)

C17_Witness ==
    /\ npc = "failed"
    /\ nerr = Error("first", "Device not connected")
    /\ dlast = [u |-> FALSE, c |-> FALSE, out |-> "raise"]
    /\ dleft = 0

\* C18 (as claimed): a _detectDevice call that found no matching device and
\* raised 'Device not connected' has made exactly 5 query rounds.
C18_FiveRounds ==
    dlast.out = "raise" => drounds = DetectAttempts

\* C20: __init__ releases a handle only once, the pre-switch (unconfigured) one,
\* right after request 53 reported 0 and before the first re-poll detection; a
\* construction that failed in the handshake has released nothing, one that
\* failed at the endpoint resolution has not released the configured handle it
\* stored; and a failed construction leaves no endpoints, so no close can run.
C20_ReleaseOnlyAfterSwitch ==
    /\ released \in {<<>>, <<"unconfigured">>}
    /\ released # <<>> => (Len(ctl) = 8 /\ ctl[8] = Ctl(53, 0, 0, <<>>) /\ dcalls >= 2)
    /\ (Len(ctl) = 8 /\ ctl[8].ret = 0) => released = <<"unconfigured">>
    /\ npc \in {"first", "version", "descriptor", "switch", "reset"} => released = <<>>
    /\ (npc = "failed" /\ nerr.at \in {"first", "version", "descriptor", "switch"})
        => released = <<>> /\ device = "None"
    /\ (npc = "failed" /\ nerr.at = "endpoints")
        => device = "handle" /\ handle = "configured"
    /\ npc = "failed"
        => /\ endpoint_out = "None" /\ endpoint_in = "None"
           /\ disposed = 0 /\ cres = NoResult

C20_Witness ==
    /\ npc = "failed"
    /\ nerr = Error("endpoints", "AssertionError")
    /\ released = <<"unconfigured">>
    /\ device = "handle"

\* no close() has been called so far, by the caller or by __exit__
NoCloseCalled == NoClose /\ cres = NoResult /\ scope \in {"body", "direct"}

\* the transport answers a transfer on endpoint e in this step: the log of the
\* call that issues on e grows
Answered(e) ==
    IF e = "ep_out" THEN Len(wlog') > Len(wlog) ELSE Len(rlog') > Len(rlog)

\* C19 (as claimed): with a writer thread and a reader thread on the open Bridge
\* (no close() called), on each endpoint every header transfer is immediately
\* followed by the payload transfer of the same frame.
C19_EveryHeaderFollowed ==
    [][NoCloseCalled =>
        \A e \in DOMAIN bus :
            (Answered(e) /\ bus[e] # <<>> /\ Last(bus[e]).kind = "header")
                => /\ Last(bus'[e]).kind = "payload"
                   /\ Last(bus'[e]).by = Last(bus[e]).by
                   /\ Last(bus'[e]).frame = Last(bus[e]).frame]_vars

\* a header transfer that moved its 2 bytes
HeaderDone(x) == x.kind = "header" /\ x.ret = 2

\* C19 (amended): with a writer thread and a reader thread interleaved, read
\* issues only on the IN endpoint, write (and close) only on the OUT endpoint, and
\* no step of read or write changes the device handle or the endpoints: only the
\* three assignments that end a close() do, after its terminator was transferred.
\* As long as no close() has been called, on each endpoint the transfer that
\* follows a header transfer that moved its 2 bytes is the payload transfer of
\* the same frame (the operation is on its way to that payload until then), and
\* a payload transfer follows nothing but the header of its frame.
C19_NoInterleaving ==
    /\ [][<<device, endpoint_out, endpoint_in>>' # <<device, endpoint_out, endpoint_in>>
            => /\ \E c \in Closers :
                    /\ cpc[c] \in {"clear_device", "clear_out", "clear_in"}
                    /\ cpc'[c] # cpc[c]
               /\ wpc' = wpc /\ rpc' = rpc /\ wlog' = wlog /\ rlog' = rlog
               /\ clog # <<>> /\ clog[1].ret >= 0]_vars
    /\ [](/\ bus["ep_in"] # <<>> => Last(bus["ep_in"]).by = "read"
          /\ bus["ep_out"] # <<>> => Last(bus["ep_out"]).by \in {"write", "close"}
          /\ NoCloseCalled =>
             \A e \in DOMAIN bus :
                (bus[e] # <<>> /\ HeaderDone(Last(bus[e])))
                    => IF Last(bus[e]).by = "write"
                       THEN wpc \in {"issue_payload", "payload"}
                       ELSE rpc \in {"issue_payload", "payload"})
    /\ [][NoCloseCalled =>
            \A e \in DOMAIN bus :
                Answered(e)
                => /\ (bus[e] # <<>> /\ HeaderDone(Last(bus[e])))
                        => /\ Last(bus'[e]).kind = "payload"
                           /\ Last(bus'[e]).by = Last(bus[e]).by
                           /\ Last(bus'[e]).frame = Last(bus[e]).frame
                   /\ Last(bus'[e]).kind = "payload"
                        => /\ bus[e] # <<>>
                           /\ HeaderDone(Last(bus[e]))
                           /\ Last(bus[e]).by = Last(bus'[e]).by
                           /\ Last(bus[e]).frame = Last(bus'[e]).frame]_vars

\* the writer ran a whole frame while the reader was between the header and the
\* payload of its frame
C19_Witness ==
    /\ NoCloseCalled
    /\ rpc = "payload" /\ rlog # <<>>
    /\ wpc = "idle" /\ wres.status = "ok" /\ Len(wlog) = 2
    /\ bus["ep_out"] = <<Bulk("write", "payload", nwrites, RLen(wdata))>>
    /\ bus["ep_in"] = <<Bulk("read", "header", rsize, 2)>>
    /\ rsize = 300

====
